---- MODULE Spec2Model ----
(***************************************************************************)
(* Model of server/utils/config.ts: the configuration pipeline             *)
(* (loadLocalConfig, validateConfigSchema, createTagMap, determineService, *)
(* the defu merge, extractSafelyConfig, extractServicesFromConfig).        *)
(*                                                                         *)
(* JavaScript values are tagged records.  An object is a sequence of       *)
(* [k, v] entries kept in JavaScript's own-property order: integer-like    *)
(* keys first in ascending numeric order, then the other keys in the order *)
(* they were created.                                                      *)
(***************************************************************************)
EXTENDS Integers, Sequences, FiniteSets, TLC

VARIABLES
  storage,        \* the item stored under 'config.yml' in the 'data' storage
  heap,           \* the configuration objects created so far, by address
  pc,             \* where each loadLocalConfig invocation stands
  defaultConfig,  \* each invocation's local defaultConfig (an address)
  found,          \* what each invocation's hasItem resolved to
  raw,            \* what each invocation's getItem resolved to
  config,         \* each invocation's local config (the parsed document)
  outcome,        \* how each invocation settled: a returned object or an error
  nextUuid,       \* the number of identifiers crypto.randomUUID() has drawn
  logged,         \* the errors handed to logger.error
  trace,          \* the pipeline steps each invocation ran, in order
  safe,           \* extractSafelyConfig of each returned configuration
  index           \* extractServicesFromConfig of each returned configuration

vars == <<storage, heap, pc, defaultConfig, found, raw, config, outcome,
          nextUuid, logged, trace, safe, index>>

(***************************************************************************)
(* Bounds of the model.                                                    *)
(***************************************************************************)
\* integer-like property keys "0" .. ToString(MaxIntegerKey) are recognised
MaxIntegerKey == 2
\* number of loadLocalConfig invocations in the concurrent specification
NumLoads == 2
\* longest flat services list of an input document
MaxItems == 2
\* most groups in the services mapping of an input document
MaxGroups == 2

(***************************************************************************)
(* JavaScript values.                                                      *)
(***************************************************************************)
Undefined == [t |-> "undefined"]
Null == [t |-> "null"]
Str(s) == [t |-> "string", s |-> s]
Bool(b) == [t |-> "boolean", b |-> b]
Num(n) == [t |-> "number", finite |-> TRUE, n |-> n]
NaN == [t |-> "number", finite |-> FALSE, n |-> 0]
Arr(items) == [t |-> "array", items |-> items]
Obj(entries) == [t |-> "object", entries |-> entries]
Entry(k, v) == [k |-> k, v |-> v]

IsObject(v) == v.t = "object"
IsArray(v) == v.t = "array"
IsString(v) == v.t = "string"
IsNullish(v) == v.t \in {"undefined", "null"}

\* ToBoolean
Truthy(v) ==
  CASE v.t \in {"undefined", "null"} -> FALSE
    [] v.t = "boolean" -> v.b
    [] v.t = "number" -> v.finite /\ v.n # 0
    [] IsString(v) -> ~("s" \in DOMAIN v /\ v.s = "")
    [] OTHER -> TRUE

\* a || b
OrElse(a, b) == IF Truthy(a) THEN a ELSE b

KeySet(o) == {o.entries[i].k : i \in 1..Len(o.entries)}
HasKey(o, k) == IsObject(o) /\ k \in KeySet(o)

\* o[k] / o.k for a value that is not null or undefined
Get(o, k) ==
  IF HasKey(o, k)
  THEN o.entries[CHOOSE i \in 1..Len(o.entries) : o.entries[i].k = k].v
  ELSE Undefined

IsIntegerKey(k) == \E n \in 0..MaxIntegerKey : ToString(n) = k
IntegerKeyValue(k) == CHOOSE n \in 0..MaxIntegerKey : ToString(n) = k

\* does key a come before key b that was created earlier than a?
KeyBefore(a, b) ==
  /\ IsIntegerKey(a)
  /\ (IsIntegerKey(b) => IntegerKeyValue(a) < IntegerKeyValue(b))

\* o[k] = v (CreateDataProperty / Set on an ordinary object)
SetKey(o, k, v) ==
  IF HasKey(o, k)
  THEN Obj([i \in 1..Len(o.entries) |->
             IF o.entries[i].k = k THEN Entry(k, v) ELSE o.entries[i]])
  ELSE LET n == Len(o.entries)
           before == {i \in 1..n : ~KeyBefore(k, o.entries[i].k)}
           pos == Cardinality(before)
       IN Obj([i \in 1..(n + 1) |->
                IF i <= pos THEN o.entries[i]
                ELSE IF i = pos + 1 THEN Entry(k, v)
                ELSE o.entries[i - 1]])

RECURSIVE AssignAll(_, _, _)
\* target[k] = v for the entries i.. of a sequence of entries, in order
AssignAll(target, entries, i) ==
  IF i > Len(entries) THEN target
  ELSE AssignAll(SetKey(target, entries[i].k, entries[i].v), entries, i + 1)

EmptyObj == Obj(<<>>)

\* { ...a }
Spread(a) == IF IsObject(a) THEN AssignAll(EmptyObj, a.entries, 1) ELSE EmptyObj

\* Object.entries(o)
ObjectEntries(o) ==
  CASE IsObject(o) -> o.entries
    [] IsArray(o) -> [i \in 1..Len(o.items) |-> Entry(ToString(i - 1), o.items[i])]
    [] OTHER -> <<>>

RECURSIVE ToJS(_)
\* a parsed document node as the JavaScript value the parser builds: every
\* mapping becomes an ordinary object, its keys assigned in textual order
ToJS(node) ==
  CASE IsArray(node) -> Arr([i \in 1..Len(node.items) |-> ToJS(node.items[i])])
    [] IsObject(node) ->
         AssignAll(EmptyObj,
                   [i \in 1..Len(node.entries) |->
                      Entry(node.entries[i].k, ToJS(node.entries[i].v))], 1)
    [] OTHER -> node

RECURSIVE ConcatAll(_, _)
\* the concatenation of the sequences i.. of a sequence of sequences
ConcatAll(seqs, i) ==
  IF i > Len(seqs) THEN <<>> ELSE seqs[i] \o ConcatAll(seqs, i + 1)

(***************************************************************************)
(* JSON.stringify(value, replacer) and JSON.parse.  A JSON text is         *)
(* modelled by the tree it denotes; JsonText(tree) is the string holding   *)
(* that text.                                                              *)
(***************************************************************************)
JsonText(tree) == [t |-> "string", json |-> tree]

\* the replacer of line 139: drop an _errors property whose value is empty
pruneEmptyErrors(key, val) ==
  LET lengthFalsy ==
        CASE IsArray(val) -> Len(val.items) = 0
          [] IsString(val) -> "s" \in DOMAIN val /\ val.s = ""
          [] OTHER -> TRUE
  IN IF key = "_errors" /\ lengthFalsy THEN Undefined ELSE val

\* a replacer that blanks the value instead of dropping the property
omitSecretsAsNull(key, val) == IF key = "secrets" THEN Null ELSE val

\* the replacer of line 161: drop every property named secrets
omitSecrets(key, val) == IF key = "secrets" THEN Undefined ELSE val

ApplyReplacer(replacer, key, val) ==
  CASE replacer = "pruneEmptyErrors" -> pruneEmptyErrors(key, val)
    [] replacer = "omitSecrets" -> omitSecrets(key, val)
    [] OTHER -> val

RECURSIVE SerializeJSONProperty(_, _, _)
\* the JSON tree written for holder[key], or Undefined when nothing is written
SerializeJSONProperty(key, held, replacer) ==
  LET value == ApplyReplacer(replacer, key, held)
  IN CASE value.t = "undefined" -> Undefined
       [] value.t = "number" -> IF value.finite THEN value ELSE Null
       [] IsArray(value) ->
            Arr([i \in 1..Len(value.items) |->
                  LET e == SerializeJSONProperty(ToString(i - 1), value.items[i], replacer)
                  IN IF e.t = "undefined" THEN Null ELSE e])
       [] IsObject(value) ->
            LET ser == [i \in 1..Len(value.entries) |->
                         Entry(value.entries[i].k,
                               SerializeJSONProperty(value.entries[i].k,
                                                     value.entries[i].v, replacer))]
                Written(e) == e.v.t # "undefined"
            IN Obj(SelectSeq(ser, Written))
       [] OTHER -> value

JSONstringify(value, replacer) ==
  LET tree == SerializeJSONProperty("", value, replacer)
  IN IF tree.t = "undefined" THEN Undefined ELSE JsonText(tree)

JSONparse(text) == ToJS(text.json)

(***************************************************************************)
(* zod: a schema check yields the sequence of issues it raises, in the     *)
(* order zod visits the schema; the empty sequence means the value parses. *)
(***************************************************************************)
Issue(path, message) == [path |-> path, message |-> message]

\* zod's getParsedType
ParsedType(v) ==
  IF v.t = "number" /\ ~v.finite THEN "nan" ELSE v.t

InvalidType(path, expected, v) ==
  IF v.t = "undefined" THEN Issue(path, "Required")
  ELSE Issue(path, "Expected " \o expected \o ", received " \o ParsedType(v))

\* z.string(), z.boolean(), z.number() with .optional() / .nullish()
zPrimitive(v, path, expected, optional, nullable) ==
  IF \/ optional /\ v.t = "undefined"
     \/ nullable /\ v.t = "null"
     \/ ParsedType(v) = expected
  THEN <<>>
  ELSE <<InvalidType(path, expected, v)>>

\* z.record(z.any()).optional()
zRecordAny(v, path) ==
  IF v.t = "undefined" \/ IsObject(v) THEN <<>>
  ELSE <<InvalidType(path, "object", v)>>

\* const status = z.object({...}), used as status.optional()
zStatus(v, path) ==
  IF v.t = "undefined" THEN <<>>
  ELSE IF ~IsObject(v) THEN <<InvalidType(path, "object", v)>>
  ELSE zPrimitive(Get(v, "enabled"), Append(path, "enabled"), "boolean", TRUE, FALSE)
       \o zPrimitive(Get(v, "interval"), Append(path, "interval"), "number", TRUE, FALSE)

\* const icon = z.object({...}), used as icon.optional()
zIcon(v, path) ==
  IF v.t = "undefined" THEN <<>>
  ELSE IF ~IsObject(v) THEN <<InvalidType(path, "object", v)>>
  ELSE zPrimitive(Get(v, "url"), Append(path, "url"), "string", TRUE, FALSE)
       \o zPrimitive(Get(v, "name"), Append(path, "name"), "string", TRUE, FALSE)
       \o zPrimitive(Get(v, "wrap"), Append(path, "wrap"), "boolean", TRUE, FALSE)
       \o zPrimitive(Get(v, "background"), Append(path, "background"), "string", TRUE, FALSE)
       \o zPrimitive(Get(v, "color"), Append(path, "color"), "string", TRUE, FALSE)

\* const tag = z.object({ name, color })
zTag(v, path) ==
  IF ~IsObject(v) THEN <<InvalidType(path, "object", v)>>
  ELSE zPrimitive(Get(v, "name"), Append(path, "name"), "string", FALSE, FALSE)
       \o zPrimitive(Get(v, "color"), Append(path, "color"), "string", FALSE, FALSE)

\* const service = z.object({...})
zService(v, path) ==
  IF ~IsObject(v) THEN <<InvalidType(path, "object", v)>>
  ELSE zPrimitive(Get(v, "title"), Append(path, "title"), "string", TRUE, TRUE)
       \o zPrimitive(Get(v, "description"), Append(path, "description"), "string", TRUE, TRUE)
       \o zPrimitive(Get(v, "link"), Append(path, "link"), "string", TRUE, TRUE)
       \o zPrimitive(Get(v, "target"), Append(path, "target"), "string", TRUE, FALSE)
       \o zIcon(Get(v, "icon"), Append(path, "icon"))
       \o zStatus(Get(v, "status"), Append(path, "status"))
       \o zPrimitive(Get(v, "type"), Append(path, "type"), "string", TRUE, FALSE)
       \o zRecordAny(Get(v, "options"), Append(path, "options"))
       \o zRecordAny(Get(v, "secrets"), Append(path, "secrets"))

\* z.array(tag).optional()
zTagArray(v, path) ==
  IF v.t = "undefined" THEN <<>>
  ELSE IF ~IsArray(v) THEN <<InvalidType(path, "array", v)>>
  ELSE ConcatAll([i \in 1..Len(v.items) |->
                   zTag(v.items[i], Append(path, ToString(i - 1)))], 1)

\* z.array(service)
zServiceArray(v, path) ==
  IF ~IsArray(v) THEN <<InvalidType(path, "array", v)>>
  ELSE ConcatAll([i \in 1..Len(v.items) |->
                   zService(v.items[i], Append(path, ToString(i - 1)))], 1)

\* z.record(z.array(service))
zServiceRecord(v, path) ==
  IF ~IsObject(v) THEN <<InvalidType(path, "object", v)>>
  ELSE ConcatAll([i \in 1..Len(v.entries) |->
                   zServiceArray(v.entries[i].v, Append(path, v.entries[i].k))], 1)

\* z.union([z.array(service), z.record(z.array(service))]): when no option
\* parses, the invalid_union issue carries the issues of every option, and
\* ZodError.format() reports them all
zServices(v, path) ==
  IF zServiceArray(v, path) = <<>> \/ zServiceRecord(v, path) = <<>> THEN <<>>
  ELSE zServiceArray(v, path) \o zServiceRecord(v, path)

\* const schema = z.object({...}); schema.parse(config) raises a ZodError
\* carrying these issues unless there are none
validateConfigSchema(cfg) ==
  IF ~IsObject(cfg) THEN <<InvalidType(<<>>, "object", cfg)>>
  ELSE zPrimitive(Get(cfg, "title"), <<"title">>, "string", TRUE, FALSE)
       \o zPrimitive(Get(cfg, "lang"), <<"lang">>, "string", TRUE, FALSE)
       \o zPrimitive(Get(cfg, "theme"), <<"theme">>, "string", TRUE, FALSE)
       \o zPrimitive(Get(cfg, "checkUpdates"), <<"checkUpdates">>, "boolean", TRUE, FALSE)
       \o zTagArray(Get(cfg, "tags"), <<"tags">>)
       \o zServices(Get(cfg, "services"), <<"services">>)

RECURSIVE AddFormatted(_, _, _, _)
\* ZodError.format(): walk the issue's path below node, creating
\* { _errors: [] } nodes, and push the message at the end of the path
AddFormatted(node, path, i, message) ==
  IF i > Len(path)
  THEN SetKey(node, "_errors", Arr(Append(Get(node, "_errors").items, message)))
  ELSE LET child == OrElse(Get(node, path[i]), Obj(<<Entry("_errors", Arr(<<>>))>>))
       IN SetKey(node, path[i], AddFormatted(child, path, i + 1, message))

RECURSIVE FormatIssues(_, _, _)
FormatIssues(tree, issues, i) ==
  IF i > Len(issues) THEN tree
  ELSE FormatIssues(AddFormatted(tree, issues[i].path, 1, Str(issues[i].message)),
                    issues, i + 1)

\* e.format() of a ZodError with these issues
ZodFormat(issues) == FormatIssues(Obj(<<Entry("_errors", Arr(<<>>))>>), issues, 1)

(***************************************************************************)
(* Results of a call: a returned value or a thrown error.                  *)
(***************************************************************************)
Return(v) == [threw |-> FALSE, value |-> v]
Throw(e) == [threw |-> TRUE, error |-> e]

\* an Error instance; e.message is a string
ErrorObj(name, message) == [t |-> "error", name |-> name, message |-> message]

\* new ZodError(issues); its message is the JSON text of the issues
ZodError(issues) ==
  [t |-> "error", name |-> "ZodError",
   message |-> JsonText(Arr([i \in 1..Len(issues) |->
                  Obj(<<Entry("path", Arr([j \in 1..Len(issues[i].path) |->
                                            Str(issues[i].path[j])])),
                        Entry("message", Str(issues[i].message))>>)])),
   issues |-> issues]

\* crypto.randomUUID(): the n-th identifier drawn; no two draws are equal
randomUUID(n) == Str("uuid-" \o ToString(n))

(***************************************************************************)
(* The text stored under config.yml, and yaml.parse.                       *)
(***************************************************************************)
\* a string holding the YAML text of a document node (mappings keep the
\* order their keys are written in)
YamlText(node) == [t |-> "string", yaml |-> node]
\* a non-empty string that is not YAML
MalformedText == [t |-> "string", malformed |-> TRUE]

yamlParse(text) ==
  CASE "malformed" \in DOMAIN text -> Throw(ErrorObj("YAMLParseError", Str("YAMLParseError")))
    [] "yaml" \in DOMAIN text -> Return(ToJS(text.yaml))
    [] OTHER -> Return(Null)

(***************************************************************************)
(* TagMap = Map<name, Tag>: entries in insertion order.                    *)
(***************************************************************************)
MapHas(m, key) == \E i \in 1..Len(m) : m[i].k = key
MapGet(m, key) ==
  IF MapHas(m, key) THEN m[CHOOSE i \in 1..Len(m) : m[i].k = key].v ELSE Undefined
\* a map whose first entry under a key is kept
MapSetKeepingFirst(m, key, v) ==
  IF MapHas(m, key) THEN m ELSE Append(m, Entry(key, v))

MapSet(m, key, v) ==
  IF MapHas(m, key)
  THEN [i \in 1..Len(m) |-> IF m[i].k = key THEN Entry(key, v) ELSE m[i]]
  ELSE Append(m, Entry(key, v))

RECURSIVE TagMapReduce(_, _, _)
TagMapReduce(acc, items, i) ==
  IF i > Len(items) THEN acc
  ELSE TagMapReduce(MapSet(acc, Get(items[i], "name"), items[i]), items, i + 1)

\* tags.reduce((acc, tag) => acc.set(tag.name, tag), new Map())
createTagMap(tags) ==
  IF ~IsArray(tags)
  THEN Throw(ErrorObj("TypeError", Str("tags.reduce is not a function")))
  ELSE IF \E i \in 1..Len(tags.items) : IsNullish(tags.items[i])
  THEN Throw(ErrorObj("TypeError", Str("Cannot read properties of null (reading 'name')")))
  ELSE Return(TagMapReduce(<<>>, tags.items, 1))

\* the callback of line 15: one tag reference of a service
resolveTag(tag, tags) ==
  IF IsString(tag)
  THEN OrElse(MapGet(tags, tag),
              Obj(<<Entry("name", tag), Entry("color", Str("blue"))>>))
  ELSE tag

\* { id: crypto.randomUUID(), ...item, tags: ... }: the document's id wins
determineItemKeepingId(item, tags, n) ==
  LET refs == OrElse(Get(item, "tags"), Arr(<<>>))
  IN SetKey(AssignAll(Obj(<<Entry("id", randomUUID(n))>>),
                      ObjectEntries(Spread(item)), 1),
            "tags", Arr([j \in 1..Len(refs.items) |-> resolveTag(refs.items[j], tags)]))

\* the callback of line 12: { ...item, id: crypto.randomUUID(), tags: ... }
determineItem(item, tags, n) ==
  LET refs == OrElse(Get(item, "tags"), Arr(<<>>))
  IN SetKey(SetKey(Spread(item), "id", randomUUID(n)),
            "tags", Arr([j \in 1..Len(refs.items) |-> resolveTag(refs.items[j], tags)]))

\* items.map(...) drawing identifiers n, n + 1, ...; used is the number drawn
determineService(items, tags, n) ==
  LET bad == {i \in 1..Len(items.items) :
                LET refs == OrElse(Get(items.items[i], "tags"), Arr(<<>>))
                IN ~IsArray(refs)}
  IN IF bad # {}
     THEN [threw |-> TRUE,
           error |-> ErrorObj("TypeError", Str("(item.tags || []).map is not a function")),
           used |-> CHOOSE i \in bad : \A j \in bad : i <= j]
     ELSE [threw |-> FALSE,
           value |-> Arr([i \in 1..Len(items.items) |->
                           determineItem(items.items[i], tags, n + i - 1)]),
           used |-> Len(items.items)]

(***************************************************************************)
(* defu(object, defaults)                                                  *)
(***************************************************************************)
\* [...value, ...object[key]]
MergeArrays(value, existing) == Arr(value.items \o existing.items)

RECURSIVE DefuInner(_, _)
RECURSIVE DefuKeys(_, _, _)
DefuKeys(object, entries, i) ==
  IF i > Len(entries) THEN object
  ELSE LET key == entries[i].k
           value == entries[i].v
           existing == Get(object, key)
       IN IF key \in {"__proto__", "constructor"} \/ IsNullish(value)
          THEN DefuKeys(object, entries, i + 1)
          ELSE IF IsArray(value) /\ IsArray(existing)
          THEN DefuKeys(SetKey(object, key, MergeArrays(value, existing)), entries, i + 1)
          ELSE IF IsObject(value) /\ IsObject(existing)
          THEN DefuKeys(SetKey(object, key, DefuInner(value, existing)), entries, i + 1)
          ELSE DefuKeys(SetKey(object, key, value), entries, i + 1)

\* _defu(baseObject, defaults): a copy of defaults overlaid with baseObject
DefuInner(baseObject, defaults) ==
  IF ~IsObject(defaults) THEN DefuInner(baseObject, EmptyObj)
  ELSE DefuKeys(Spread(defaults), ObjectEntries(baseObject), 1)

\* the arguments the other way round: the defaults win
defuDefaultsFirst(object, defaults) == DefuInner(DefuInner(EmptyObj, defaults), object)

\* defu(a, b) = [a, b].reduce((p, c) => _defu(p, c), {})
defu(object, defaults) == DefuInner(DefuInner(EmptyObj, object), defaults)

getDefaultConfig ==
  Obj(<<Entry("title", Str("Mafl Home Page")),
        Entry("lang", Str("en")),
        Entry("theme", Str("system")),
        Entry("checkUpdates", Bool(TRUE)),
        Entry("behaviour", Obj(<<Entry("target", Str("_blank"))>>)),
        Entry("tags", Arr(<<>>)),
        Entry("services", Arr(<<>>))>>)

(***************************************************************************)
(* loadLocalConfig                                                         *)
(***************************************************************************)
Loads == 1..NumLoads

\* one default configuration object shared by every call
sharedDefaultConfig(p) == 1

\* the object a call of getDefaultConfig() returns: the literal of line 29
\* creates a new object on every call
newDefaultConfig(p) == p
\* the object defu returns to invocation p: a new object
newMergedConfig(p) == NumLoads + p

RECURSIVE NormalizeGroups(_, _, _, _, _, _)
\* the loop of lines 120-125 from entry i on: acc holds the groups pushed so
\* far, n is the next identifier to draw, calls counts determineService calls
NormalizeGroups(entries, i, tags, n, acc, calls) ==
  IF i > Len(entries)
  THEN [threw |-> FALSE, value |-> acc, used |-> 0, calls |-> calls]
  ELSE LET d == determineService(entries[i].v, tags, n)
       IN IF d.threw
          THEN [threw |-> TRUE, error |-> d.error, used |-> d.used, calls |-> calls + 1]
          ELSE LET rest == NormalizeGroups(entries, i + 1, tags, n + d.used,
                             Append(acc, Obj(<<Entry("title", Str(entries[i].k)),
                                               Entry("items", d.value)>>)),
                             calls + 1)
               IN [rest EXCEPT !.used = rest.used + d.used]

\* lines 113-126: the services array
NormalizeServices(cfg, tags, n) ==
  LET services == Get(cfg, "services")
  IN IF IsArray(services)
     THEN LET d == determineService(services, tags, n)
          IN IF d.threw
             THEN [threw |-> TRUE, error |-> d.error, used |-> d.used, calls |-> 1]
             ELSE [threw |-> FALSE, value |-> <<Obj(<<Entry("items", d.value)>>)>>,
                   used |-> d.used, calls |-> 1]
     ELSE NormalizeGroups(ObjectEntries(OrElse(services, Arr(<<>>))), 1, tags, n, <<>>, 0)

\* lines 106-128, the body of the try block after the storage reads:
\* item is what getItem resolved to, defaults the value of defaultConfig,
\* n the next identifier to draw
tryBody(item, defaults, n) ==
  LET parsed == yamlParse(OrElse(item, Str("")))
      cfg == OrElse(parsed.value, EmptyObj)
      tags == createTagMap(OrElse(Get(cfg, "tags"), Arr(<<>>)))
      issues == validateConfigSchema(cfg)
      norm == NormalizeServices(cfg, tags.value, n)
      steps3 == <<"yaml.parse", "createTagMap", "validateConfigSchema">>
  IN IF parsed.threw
     THEN [threw |-> TRUE, error |-> parsed.error, config |-> Undefined,
           used |-> 0, trace |-> <<"yaml.parse">>]
     ELSE IF tags.threw
     THEN [threw |-> TRUE, error |-> tags.error, config |-> cfg,
           used |-> 0, trace |-> <<"yaml.parse", "createTagMap">>]
     ELSE IF issues # <<>>
     THEN [threw |-> TRUE, error |-> ZodError(issues), config |-> cfg,
           used |-> 0, trace |-> steps3]
     ELSE IF norm.threw
     THEN [threw |-> TRUE, error |-> norm.error, config |-> cfg, used |-> norm.used,
           trace |-> steps3 \o [c \in 1..norm.calls |-> "determineService"]]
     ELSE [threw |-> FALSE,
           value |-> defu(SetKey(Spread(cfg), "services", Arr(norm.value)), defaults),
           config |-> cfg, used |-> norm.used,
           trace |-> steps3 \o [c \in 1..norm.calls |-> "determineService"] \o <<"defu">>]

\* lines 132-142: what the catch block makes of the defaultConfig object
catchAssign(e, defaults) ==
  LET byMessage == IF e.t = "error" THEN SetKey(defaults, "error", e.message)
                   ELSE defaults
  IN IF e.t = "error" /\ e.name = "ZodError"
     THEN SetKey(byMessage, "error",
                 JSONstringify(ZodFormat(e.issues), "pruneEmptyErrors"))
     ELSE byMessage

LoggerFailure == ErrorObj("Error", Str("logger failed"))

\* lines 129-145: the catch block and the return after it.  logger.error is
\* an external call that may itself throw; nothing encloses it.
Catch(p, e, steps) ==
  /\ logged' = Append(logged, e)
  /\ trace' = [trace EXCEPT ![p] = steps \o <<"logger.error">>]
  /\ \E loggerThrows \in BOOLEAN :
       IF loggerThrows
       THEN /\ pc' = [pc EXCEPT ![p] = "rejected"]
            /\ outcome' = [outcome EXCEPT ![p] = LoggerFailure]
            /\ heap' = heap
       ELSE /\ pc' = [pc EXCEPT ![p] = "returned"]
            /\ heap' = [heap EXCEPT ![defaultConfig[p]] = catchAssign(e, @)]
            /\ outcome' = [outcome EXCEPT ![p] = [t |-> "ref", addr |-> defaultConfig[p]]]

\* lines 97-99: loadLocalConfig is called
Call(p) ==
  /\ pc[p] = "idle"
  /\ defaultConfig' = [defaultConfig EXCEPT ![p] = newDefaultConfig(p)]
  /\ heap' = [heap EXCEPT ![newDefaultConfig(p)] = getDefaultConfig]
  /\ pc' = [pc EXCEPT ![p] = "hasItem"]
  /\ UNCHANGED <<storage, found, raw, config, outcome, nextUuid, logged, trace,
                 safe, index>>

\* lines 102-104: await storage.hasItem(file) resolves
HasItem(p) ==
  /\ pc[p] = "hasItem"
  /\ found' = [found EXCEPT ![p] = Bool(storage.exists)]
  /\ IF storage.exists
     THEN /\ pc' = [pc EXCEPT ![p] = "getItem"]
          /\ UNCHANGED <<heap, outcome, logged, trace>>
     ELSE Catch(p, ErrorObj("Error", Str("Config not found")), <<>>)
  /\ UNCHANGED <<storage, defaultConfig, raw, config, nextUuid, safe, index>>

\* lines 106-145: await storage.getItem(file) resolves and the rest of the
\* function runs to its return
GetItem(p) ==
  /\ pc[p] = "getItem"
  /\ LET item == IF storage.exists THEN storage.item ELSE Null
         r == tryBody(item, heap[defaultConfig[p]], nextUuid)
     IN /\ raw' = [raw EXCEPT ![p] = item]
        /\ config' = [config EXCEPT ![p] = r.config]
        /\ nextUuid' = nextUuid + r.used
        /\ IF r.threw
           THEN Catch(p, r.error, r.trace)
           ELSE /\ pc' = [pc EXCEPT ![p] = "returned"]
                /\ heap' = [heap EXCEPT ![newMergedConfig(p)] = r.value]
                /\ outcome' = [outcome EXCEPT ![p] =
                                 [t |-> "ref", addr |-> newMergedConfig(p)]]
                /\ trace' = [trace EXCEPT ![p] = r.trace]
                /\ logged' = logged
  /\ UNCHANGED <<storage, defaultConfig, found, safe, index>>

(***************************************************************************)
(* extractSafelyConfig, extractServicesFromConfig                          *)
(***************************************************************************)
extractSafelyConfig(cfg) == JSONparse(JSONstringify(cfg, "omitSecrets"))

RECURSIVE IndexItems(_, _, _)
\* for (const item of group.items) acc[item.id] = item
IndexItems(acc, items, i) ==
  IF i > Len(items) THEN acc
  ELSE IndexItems(SetKey(acc, Get(items[i], "id").s, items[i]), items, i + 1)

RECURSIVE IndexGroups(_, _, _)
IndexGroups(acc, groups, i) ==
  IF i > Len(groups) THEN acc
  ELSE IndexGroups(IndexItems(acc, Get(groups[i], "items").items, 1), groups, i + 1)

extractServicesFromConfig(cfg) == IndexGroups(EmptyObj, Get(cfg, "services").items, 1)

\* the configuration invocation p returned
Returned(p) == heap[outcome[p].addr]

ExtractSafely(p) ==
  /\ pc[p] = "returned"
  /\ safe[p] = Undefined
  /\ safe' = [safe EXCEPT ![p] = extractSafelyConfig(Returned(p))]
  /\ UNCHANGED <<storage, heap, pc, defaultConfig, found, raw, config, outcome,
                 nextUuid, logged, trace, index>>

ExtractServices(p) ==
  /\ pc[p] = "returned"
  /\ index[p] = Undefined
  /\ index' = [index EXCEPT ![p] = extractServicesFromConfig(Returned(p))]
  /\ UNCHANGED <<storage, heap, pc, defaultConfig, found, raw, config, outcome,
                 nextUuid, logged, trace, safe>>

(***************************************************************************)
(* Input documents.                                                        *)
(***************************************************************************)
\* an object literal: the entries whose value is given
Lit(entries) ==
  LET Given(e) == e.v.t # "undefined"
  IN Obj(SelectSeq(entries, Given))

SeqsUpTo(S, n) == UNION {[1..k -> S] : k \in 0..n}

Tag(name, color) == Lit(<<Entry("name", Str(name)), Entry("color", Str(color))>>)

\* values of the document's tags field that the schema accepts
ValidTagLists ==
  { Undefined,
    Arr(<<>>),
    Arr(<<Tag("x", "red")>>),
    Arr(<<Tag("x", "red"), Tag("x", "green")>>),
    Arr(<<Tag("y", "green"), Tag("x", "red")>>) }

\* values of the document's tags field that the schema rejects
InvalidTagLists ==
  { Str("oops"),
    Lit(<<Entry("x", Str("red"))>>),
    Arr(<<Null>>),
    Arr(<<Str("x")>>),
    Arr(<<Lit(<<Entry("name", Str("x"))>>)>>) }

\* services the schema accepts
ValidServices ==
  { EmptyObj,
    Lit(<<Entry("title", Str("A")), Entry("tags", Arr(<<Str("x")>>))>>),
    Lit(<<Entry("id", Str("mine")), Entry("title", Str("B")),
          Entry("tags", Arr(<<Str("y"), Tag("z", "pink"), Str("x")>>))>>),
    Lit(<<Entry("title", Null),
          Entry("status", Lit(<<Entry("enabled", Bool(TRUE)), Entry("interval", Num(5))>>)),
          Entry("secrets", Lit(<<Entry("token", Str("s3cret"))>>)),
          Entry("options", Lit(<<Entry("secrets", Lit(<<Entry("k", Num(1))>>)),
                                 Entry("ratio", NaN),
                                 Entry("keep", Arr(<<Str("v"), Lit(<<Entry("secrets", Str("s"))>>)>>))>>))>>),
    Lit(<<Entry("id", Str("mine")),
          Entry("options", Lit(<<Entry("keep", Str("v"))>>))>>) }

\* a service the schema accepts whose tags is not a sequence (tags is no
\* field of the service schema)
ServiceWithBadTags == Lit(<<Entry("title", Str("A")), Entry("tags", Num(5))>>)

\* services the schema rejects
InvalidServices ==
  { Lit(<<Entry("title", Num(5))>>),
    Lit(<<Entry("status", Lit(<<Entry("interval", NaN)>>))>>),
    Str("not a service") }

Document(title, lang, theme, checkUpdates, behaviour, tags, services, error) ==
  Lit(<<Entry("title", title), Entry("lang", lang), Entry("theme", theme),
        Entry("checkUpdates", checkUpdates), Entry("behaviour", behaviour),
        Entry("tags", tags), Entry("services", services),
        Entry("error", error)>>)

\* documents with a flat services list
FlatDocuments ==
  { Document(Undefined, Undefined, Undefined, Undefined, Undefined, tags, Arr(items), Undefined) :
      tags \in ValidTagLists, items \in SeqsUpTo(ValidServices, MaxItems) }

GroupKeys == {"b", "a", "1", "0"}
GroupLists ==
  { <<>>,
    <<Lit(<<Entry("title", Str("A")), Entry("tags", Arr(<<Str("x")>>))>>)>>,
    <<Lit(<<Entry("id", Str("mine"))>>), Lit(<<Entry("id", Str("mine"))>>)>> }

\* documents whose services is a mapping from group title to list; the keys
\* are distinct and written in the order of the sequence
GroupedDocuments ==
  UNION { { Document(Undefined, Undefined, Undefined, Undefined, Undefined, tags,
                     Obj([i \in 1..Len(keys) |-> Entry(keys[i], Arr(lists[i]))]),
                     Undefined) :
              tags \in {Undefined, Arr(<<Tag("x", "red")>>)},
              lists \in [1..Len(keys) -> GroupLists] } :
          keys \in {ks \in SeqsUpTo(GroupKeys, MaxGroups) :
                      \A i, j \in 1..Len(ks) : i # j => ks[i] # ks[j]} }

\* documents that set top-level fields
TopLevelDocuments ==
  { Document(title, lang, theme, checkUpdates, behaviour, tags,
             Arr(<<Lit(<<Entry("title", Str("A")), Entry("tags", Arr(<<Str("x")>>))>>)>>),
             error) :
      title \in {Undefined, Str("T"), Str("")},
      lang \in {Undefined, Str("de")},
      theme \in {Undefined, Str("dark")},
      checkUpdates \in {Undefined, Bool(FALSE)},
      behaviour \in {Undefined,
                     Lit(<<Entry("target", Str("_self"))>>),
                     Lit(<<Entry("pinned", Bool(TRUE))>>)},
      tags \in {Undefined, Arr(<<Tag("x", "red")>>)},
      error \in {Undefined, Str("spoofed")} }

\* documents the schema rejects, and scalars in place of a document
RejectedDocuments ==
  { Document(Undefined, Undefined, Undefined, Undefined, Undefined, tags, services, Undefined) :
      tags \in InvalidTagLists,
      services \in {Undefined, Arr(<<EmptyObj>>)} }
  \cup
  { Document(title, Undefined, Undefined, checkUpdates, Undefined, tags, services, Undefined) :
      title \in {Undefined, Num(5)},
      checkUpdates \in {Undefined, Str("no")},
      tags \in {Undefined, Arr(<<Tag("x", "red")>>)},
      services \in {Undefined, Null, Str("none"), Arr(<<>>)}
                     \cup {Arr(<<sv>>) : sv \in InvalidServices}
                     \cup {Lit(<<Entry("b", sv)>>) : sv \in InvalidServices} }
  \cup { Str("just text"), Num(0), Arr(<<>>), Null }

\* documents the schema accepts whose normalization fails
FailingDocuments ==
  { Document(Undefined, Undefined, Undefined, Undefined, Undefined, Undefined, services, Undefined) :
      services \in { Arr(<<ServiceWithBadTags>>),
                     Arr(<<EmptyObj, ServiceWithBadTags>>),
                     Lit(<<Entry("a", Arr(<<EmptyObj>>)),
                           Entry("b", Arr(<<ServiceWithBadTags>>))>>) } }

Documents ==
  FlatDocuments \cup GroupedDocuments \cup TopLevelDocuments
    \cup RejectedDocuments \cup FailingDocuments

Absent == [exists |-> FALSE]
Stored(item) == [exists |-> TRUE, item |-> item]

\* what the 'data' storage may hold under config.yml
StorageStates ==
  {Absent, Stored(Str("")), Stored(MalformedText)}
    \cup {Stored(YamlText(d)) : d \in Documents}

\* the storage states of the concurrent specification
ConcurrentStorageStates ==
  { Absent,
    Stored(MalformedText),
    Stored(YamlText(Document(Str("T"), Undefined, Undefined, Undefined, Undefined,
                             Arr(<<Tag("x", "red")>>),
                             Arr(<<Lit(<<Entry("tags", Arr(<<Str("x")>>))>>)>>),
                             Undefined))),
    Stored(YamlText(Document(Undefined, Undefined, Undefined, Undefined, Undefined,
                             Undefined, Undefined, Undefined))) }

(***************************************************************************)
(* Specifications.                                                         *)
(***************************************************************************)
InitLocals(active) ==
  /\ heap = [a \in 1..(2 * NumLoads) |-> Undefined]
  /\ pc = [p \in Loads |-> IF p \in active THEN "idle" ELSE "off"]
  /\ defaultConfig = [p \in Loads |-> 0]
  /\ found = [p \in Loads |-> Undefined]
  /\ raw = [p \in Loads |-> Undefined]
  /\ config = [p \in Loads |-> Undefined]
  /\ outcome = [p \in Loads |-> Undefined]
  /\ nextUuid = 0
  /\ logged = <<>>
  /\ trace = [p \in Loads |-> <<>>]
  /\ safe = [p \in Loads |-> Undefined]
  /\ index = [p \in Loads |-> Undefined]

\* one load of any stored document, then the extractors on its result
Init ==
  /\ storage \in StorageStates
  /\ InitLocals({1})

Next ==
  \E p \in Loads :
    \/ Call(p)
    \/ HasItem(p)
    \/ GetItem(p)
    \/ ExtractSafely(p)
    \/ ExtractServices(p)

Spec == Init /\ [][Next]_vars

\* the storage item is written or removed by another party
StorageChange(s) ==
  /\ s # storage
  /\ storage' = s
  /\ UNCHANGED <<heap, pc, defaultConfig, found, raw, config, outcome, nextUuid,
                 logged, trace, safe, index>>

\* NumLoads loads interleaved at their awaits while the storage changes
InitConcurrent ==
  /\ storage \in ConcurrentStorageStates
  /\ InitLocals(Loads)

NextConcurrent ==
  \/ \E p \in Loads : Call(p) \/ HasItem(p) \/ GetItem(p)
  \/ \E s \in ConcurrentStorageStates : StorageChange(s)

SpecConcurrent == InitConcurrent /\ [][NextConcurrent]_vars

(***************************************************************************)
(* Vocabulary of the properties.                                           *)
(***************************************************************************)
Settled(p) == pc[p] \in {"returned", "rejected"}
\* invocation p went through the catch block
FailurePath(p) == Len(trace[p]) > 0 /\ trace[p][Len(trace[p])] = "logger.error"
\* invocation p returned from inside the try block
Succeeded(p) == pc[p] = "returned" /\ ~FailurePath(p)
\* the document invocation p parsed passes validateConfigSchema
Accepted(p) == config[p] # Undefined /\ validateConfigSchema(config[p]) = <<>>
Rejected(p) == config[p] # Undefined /\ validateConfigSchema(config[p]) # <<>>

\* every field but error equals the built-in default
IsDefaultBesidesError(r) ==
  /\ KeySet(r) \ {"error"} = KeySet(getDefaultConfig)
  /\ \A k \in KeySet(getDefaultConfig) : Get(r, k) = Get(getDefaultConfig, k)

Groups(cfg) == Get(cfg, "services").items
AllItems(cfg) ==
  ConcatAll([g \in 1..Len(Groups(cfg)) |-> Get(Groups(cfg)[g], "items").items], 1)

\* the service lists of the parsed document, in the order the loader visits them
DocLists(p) ==
  LET services == Get(config[p], "services")
  IN IF IsArray(services) THEN <<services.items>>
     ELSE [g \in 1..Len(services.entries) |-> services.entries[g].v.items]

\* the document as written in the stored text
Written(p) == raw[p].yaml

\* an object without the given keys
Without(o, keys) ==
  LET Kept(e) == e.k \notin keys
  IN Obj(SelectSeq(o.entries, Kept))

(***************************************************************************)
(* C1: loadLocalConfig never raises to its caller; whatever the storage    *)
(* read yields, the call completes by returning a configuration.           *)
(***************************************************************************)
C1_NeverRaises == \A p \in Loads : pc[p] # "rejected"

(***************************************************************************)
(* C2: in every returned value, an error field means every other field is  *)
(* the built-in default; and a document that passes validation yields a    *)
(* merged configuration without an error field.                            *)
(***************************************************************************)
C2_ErrorMeansDefault ==
  \A p \in Loads :
    pc[p] = "returned" =>
      /\ HasKey(Returned(p), "error") => IsDefaultBesidesError(Returned(p))
      /\ Accepted(p) => ~HasKey(Returned(p), "error")

(***************************************************************************)
(* C3: for every parsed document the schema rejects, no tag-lookup or      *)
(* normalization step runs before the rejection, and the returned error is *)
(* the pretty-printed validation report with empty _errors pruned.         *)
(***************************************************************************)
C3_ValidationGates ==
  \A p \in Loads :
    (Settled(p) /\ Rejected(p)) =>
      /\ \A i \in 1..Len(trace[p]) :
           trace[p][i] \notin {"createTagMap", "determineService", "defu"}
      /\ pc[p] = "returned" =>
           Get(Returned(p), "error")
             = JSONstringify(ZodFormat(validateConfigSchema(config[p])),
                             "pruneEmptyErrors")

(***************************************************************************)
(* C4: on every failure path the loader returns the default configuration  *)
(* with error set, also when logger.error itself throws.                   *)
(***************************************************************************)
C4_LoggerFailureHarmless ==
  \A p \in Loads :
    (Settled(p) /\ FailurePath(p)) =>
      /\ pc[p] = "returned"
      /\ HasKey(Returned(p), "error")
      /\ IsDefaultBesidesError(Returned(p))

(***************************************************************************)
(* C5: after a successful load a flat services list gives exactly one      *)
(* group without title holding the services in document order, and a       *)
(* mapping with N keys gives N groups titled by the keys in the order the  *)
(* document declares them.                                                 *)
(***************************************************************************)
C5_GroupsInDeclaredOrder ==
  \A p \in Loads :
    Succeeded(p) =>
      LET written == Get(Written(p), "services")
          groups == Groups(Returned(p))
      IN IF IsArray(written)
         THEN /\ Len(groups) = 1
              /\ ~HasKey(groups[1], "title")
              /\ Len(Get(groups[1], "items").items) = Len(written.items)
              /\ \A i \in 1..Len(written.items) :
                   Without(Get(groups[1], "items").items[i], {"id", "tags"})
                     = Without(ToJS(written.items[i]), {"id", "tags"})
         ELSE /\ Len(groups) = Len(written.entries)
              /\ \A g \in 1..Len(groups) :
                   /\ Get(groups[g], "title") = Str(written.entries[g].k)
                   /\ Len(Get(groups[g], "items").items)
                        = Len(written.entries[g].v.items)

(***************************************************************************)
(* C6: in every successfully loaded configuration the service identifiers  *)
(* are pairwise distinct across all groups, also when the document's       *)
(* services carry an id of their own, and extractServicesFromConfig has    *)
(* exactly one entry per service, keyed by its id.                         *)
(***************************************************************************)
C6_DistinctIds ==
  \A p \in Loads :
    Succeeded(p) =>
      LET items == AllItems(Returned(p))
      IN /\ \A i, j \in 1..Len(items) :
              i # j => Get(items[i], "id") # Get(items[j], "id")
         /\ index[p] # Undefined =>
              /\ Len(index[p].entries) = Len(items)
              /\ \A i \in 1..Len(items) :
                   /\ IsString(Get(items[i], "id"))
                   /\ Get(index[p], Get(items[i], "id").s) = items[i]

\* a configuration was indexed whose document gave two services the same id
C6_Witness ==
  \E p \in Loads :
    /\ Succeeded(p)
    /\ index[p] # Undefined
    /\ Len(Groups(Returned(p))) >= 2
    /\ LET given == ConcatAll(DocLists(p), 1)
       IN \E i, j \in 1..Len(given) :
            i # j /\ HasKey(given[i], "id") /\ Get(given[i], "id") = Get(given[j], "id")

(***************************************************************************)
(* C7: every tag reference of a loaded service is resolved: a name that a  *)
(* declared tag carries gives that tag (the last one declared under the    *)
(* name), an unknown name gives the tag of that name coloured blue, an     *)
(* inline tag is kept; length and order are those of the references, no    *)
(* tags gives the empty sequence, and no bare name remains.                *)
(***************************************************************************)
C7_TagsResolved ==
  \A p \in Loads :
    Succeeded(p) =>
      LET declared == OrElse(Get(config[p], "tags"), Arr(<<>>)).items
          Named(name) == {d \in 1..Len(declared) : Get(declared[d], "name") = name}
          Last(name) == declared[CHOOSE d \in Named(name) : \A e \in Named(name) : e <= d]
          lists == DocLists(p)
          groups == Groups(Returned(p))
      IN \A g \in 1..Len(lists) : \A i \in 1..Len(lists[g]) :
           LET refs == OrElse(Get(lists[g][i], "tags"), Arr(<<>>)).items
               resolved == Get(Get(groups[g], "items").items[i], "tags")
           IN /\ IsArray(resolved)
              /\ Len(resolved.items) = Len(refs)
              /\ \A j \in 1..Len(refs) :
                   /\ ~IsString(resolved.items[j])
                   /\ IF ~IsString(refs[j]) THEN resolved.items[j] = refs[j]
                      ELSE IF Named(refs[j]) # {} THEN resolved.items[j] = Last(refs[j])
                      ELSE resolved.items[j]
                             = Obj(<<Entry("name", refs[j]), Entry("color", Str("blue"))>>)

\* a loaded service holds a tag declared twice, an unknown name and an inline tag
C7_Witness ==
  \E p \in Loads :
    /\ Succeeded(p)
    /\ Get(config[p], "tags") = Arr(<<Tag("x", "red"), Tag("x", "green")>>)
    /\ \E i \in 1..Len(AllItems(Returned(p))) :
         Get(AllItems(Returned(p))[i], "tags")
           = Arr(<<Tag("y", "blue"), Tag("z", "pink"), Tag("x", "green")>>)
    /\ \E i \in 1..Len(AllItems(Returned(p))) :
         Get(AllItems(Returned(p))[i], "tags") = Arr(<<>>)

RECURSIVE StripSecrets(_)
\* the value with every property named secrets left out, all else as it is
StripSecrets(v) ==
  CASE IsArray(v) -> Arr([i \in 1..Len(v.items) |-> StripSecrets(v.items[i])])
    [] IsObject(v) ->
         LET kept == Without(v, {"secrets"}).entries
         IN Obj([i \in 1..Len(kept) |-> Entry(kept[i].k, StripSecrets(kept[i].v))])
    [] OTHER -> v

RECURSIVE NonFiniteAsNull(_)
\* the value with every non-finite number replaced by null
NonFiniteAsNull(v) ==
  CASE IsArray(v) -> Arr([i \in 1..Len(v.items) |-> NonFiniteAsNull(v.items[i])])
    [] IsObject(v) ->
         Obj([i \in 1..Len(v.entries) |->
               Entry(v.entries[i].k, NonFiniteAsNull(v.entries[i].v))])
    [] v.t = "number" -> IF v.finite THEN v ELSE Null
    [] OTHER -> v

RECURSIVE MentionsSecrets(_)
\* some object inside v has a property named secrets
MentionsSecrets(v) ==
  CASE IsArray(v) -> \E i \in 1..Len(v.items) : MentionsSecrets(v.items[i])
    [] IsObject(v) ->
         \/ HasKey(v, "secrets")
         \/ \E i \in 1..Len(v.entries) : MentionsSecrets(v.entries[i].v)
    [] OTHER -> FALSE

(***************************************************************************)
(* C8 as claimed: extractSafelyConfig returns a copy without any property  *)
(* named secrets at any depth, in which every other field has the value it *)
(* has in the input.                                                       *)
(***************************************************************************)
C8_SecretsOmittedRestSame ==
  \A p \in Loads :
    safe[p] # Undefined =>
      /\ ~MentionsSecrets(safe[p])
      /\ safe[p] = StripSecrets(Returned(p))

(***************************************************************************)
(* C8 as amended: extractSafelyConfig leaves its input as it is and        *)
(* returns a copy without any property named secrets at any depth (left    *)
(* out, not null), in which every other field has the value it has in the  *)
(* input, except that a non-finite number (NaN, Infinity) becomes null.    *)
(***************************************************************************)
C8_SecretsOmittedRestAsJson ==
  [][\A p \in Loads :
       (safe[p] = Undefined /\ safe'[p] # Undefined) =>
         /\ heap' = heap
         /\ ~MentionsSecrets(safe'[p])
         /\ safe'[p] = NonFiniteAsNull(StripSecrets(Returned(p)))]_vars

\* the safe view was taken of a configuration with secrets at three depths
\* and a NaN option
C8_Witness ==
  \E p \in Loads :
    /\ Succeeded(p)
    /\ safe[p] # Undefined
    /\ \E i \in 1..Len(AllItems(Returned(p))) :
         LET item == AllItems(Returned(p))[i]
             view == AllItems(safe[p])[i]
         IN /\ HasKey(item, "secrets")
            /\ HasKey(Get(item, "options"), "secrets")
            /\ MentionsSecrets(Get(Get(item, "options"), "keep"))
            /\ Get(Get(item, "options"), "ratio") = NaN
            /\ Get(Get(view, "options"), "ratio") = Null
            /\ Get(view, "id") = Get(item, "id")

C10_LoadsIndependent ==
  \A p \in Loads :
    /\ pc[p] \in {"hasItem", "getItem"} => heap[defaultConfig[p]] = getDefaultConfig
    /\ pc[p] = "returned" =>
         LET r == Returned(p)
         IN CASE found[p] = Bool(FALSE) ->
                   r = SetKey(getDefaultConfig, "error", Str("Config not found"))
              [] found[p] # Bool(FALSE) /\ raw[p] = MalformedText ->
                   r = SetKey(getDefaultConfig, "error", Str("YAMLParseError"))
              [] found[p] # Bool(FALSE) /\ raw[p] # MalformedText /\ Accepted(p) ->
                   /\ ~HasKey(r, "error")
                   /\ Get(r, "title") = Get(config[p], "title")
              [] OTHER ->
                   /\ IsDefaultBesidesError(r)
                   /\ HasKey(r, "error")
                   /\ "json" \in DOMAIN Get(r, "error")

\* one load failed and logged its error before another load, called before
\* that failure, returned a merged configuration
C10_Witness ==
  \E p, q \in Loads :
    /\ p # q
    /\ pc[p] = "returned" /\ HasKey(Returned(p), "error")
    /\ Succeeded(q)
    /\ Len(logged) > 0
    /\ Get(Returned(q), "title") = Str("T")

====
